---- MODULE Spec2Model ----
(***************************************************************************)
(* Hypercore facade (index.js): session lifecycle, capability passing, the *)
(* read / append / truncate paths over one shared Core, the events of a    *)
(* Core update and the other asynchronous operations.                      *)
(***************************************************************************)
EXTENDS Integers, Sequences, FiniteSets, TLC

\* ------------------------------------------------------------------ bounds
MaxSessions == 3
DataSessions == 2
MaxPending == 2
MaxLen == 1
MaxFork == 2
MaxBlock == 2

S == 1..MaxSessions

\* Block payloads: the payload b is b bytes long.
Blocks == 1..MaxBlock

Indices == 0..(MaxLen - 1)

\* ------------------------------------------------------------------ state
VARIABLES
  n,              \* number of Hypercore objects constructed so far (ids 1..n)
  ses,            \* per-session fields of the Hypercore object
  arr,            \* the `sessions` arrays, by the id of the session that allocated one
  coreOpenCalls,  \* number of Core.open invocations
  coreCloseCalls, \* number of core.close() invocations
  defaultSign,    \* core.defaultSign is non-null
  tree,           \* core.tree: length, byteLength, fork
  log,            \* the blocks of the Core by index (index i is log[i + 1])
  bitfield,       \* core.bitfield: the indices held locally
  cache,          \* per session, the entries of this.cache (0: no entry)
  op,             \* per session, the asynchronous operation in flight
  last,           \* the outcome of the operation the last step settled, if any
  update,         \* the _oncoreupdate call the last step made, if any
  userData        \* core.header.userData: the value stored under the one key (0: none)

dataVars == <<tree, log, bitfield, cache, op, last, update, userData>>

vars == <<n, ses, arr, coreOpenCalls, coreCloseCalls, defaultSign, dataVars>>

NoSnapshot == <<>>

\* A slot of `ses` for an object that has not been constructed yet.
Blank ==
  [way |-> "none", parent |-> 0, preload |-> FALSE,
   preready |-> FALSE, snapshot |-> NoSnapshot,
   sign |-> FALSE, writable |-> FALSE, opened |-> FALSE, closed |-> FALSE,
   closing |-> FALSE, core |-> FALSE, key |-> FALSE, autoClose |-> FALSE,
   sessions |-> 0, cache |-> FALSE,
   openPc |-> "none", closePc |-> "idle", closeRuns |-> 0, autoTarget |-> 0,
   closeEv |-> <<>>]

\* The option bundles a caller may pass: sign, autoClose and at most one of the
\* hooks preload and _preready.
Hooks == {"none", "preload", "preready"}

AllOpts == [sign : BOOLEAN, hook : Hooks, autoClose : BOOLEAN, cache : BOOLEAN]

\* Options of the lifecycle specification: no cache.
Opts == {o \in AllOpts : ~o.cache}

\* autoClose of a session made by session() is overwritten by _passCapabilities
\* before anything reads it, so only first sessions vary it.
SessionOpts == {o \in Opts : ~o.autoClose}

\* Options of the data specification: no hooks, no autoClose.
DataOpts == {o \in AllOpts : o.hook = "none" /\ ~o.autoClose}

\* Options of a session made by session() in the data specification: it may
\* have a preload hook.
DataSessionOpts == {o \in AllOpts : o.hook \in {"none", "preload"} /\ ~o.autoClose}

\* snapshot() passes no option but the snapshot itself.
SnapshotOpts == {o \in DataOpts : ~o.sign /\ ~o.cache}

Created == 1..n

Settled(pc) == pc \in {"resolved", "rejected"}

IndexOf(seq, x) ==
  IF \E i \in 1..Len(seq) : seq[i] = x
    THEN CHOOSE i \in 1..Len(seq) : seq[i] = x /\ \A j \in 1..(i - 1) : seq[j] # x
    ELSE 0

Splice(seq, i) == [j \in 1..(Len(seq) - 1) |-> IF j < i THEN seq[j] ELSE seq[j + 1]]

Count(seq, x) == Cardinality({i \in 1..Len(seq) : seq[i] = x})

\* ------------------------------------------------------------ constructor
\* constructor: the fields as set before this._openSession runs.
Constructor(way, parent, o, sessions) ==
  [Blank EXCEPT !.way = way, !.parent = parent,
                !.preload = (o.hook = "preload"), !.preready = (o.hook = "preready"),
                !.sign = o.sign, !.autoClose = o.autoClose, !.cache = o.cache,
                !.sessions = sessions]

IsFirst(r) == r.way \in {"root", "from"}

\* _passCapabilities without `this.writable = !!this.sign`.
PassCapabilitiesStaleWritable(r, o) ==
  [r EXCEPT !.sign = r.sign \/ o.sign,
            !.core = o.core,
            !.key = o.key,
            !.autoClose = o.autoClose]

\* _passCapabilities (o): never overwrites an existing sign, recomputes writable.
PassCapabilities(r, o) ==
  [r EXCEPT !.sign = r.sign \/ o.sign,
            !.core = o.core,
            !.key = o.key,
            !.writable = r.sign \/ o.sign,
            !.autoClose = o.autoClose]

\* _openSession, from `if (!this.sign) this.sign = this.core.defaultSign` to the end.
\* Reading defaultSign of a null core throws, which rejects the opening future.
OpenTail(r, dsign) ==
  IF ~r.sign /\ ~r.core
    THEN [r EXCEPT !.openPc = "rejected"]
    ELSE LET sg == r.sign \/ dsign IN
         IF r.preready
           THEN [r EXCEPT !.sign = sg, !.writable = sg, !.preready = FALSE,
                          !.openPc = "preready"]
           ELSE [r EXCEPT !.sign = sg, !.writable = sg, !.opened = TRUE,
                          !.openPc = "resolved"]

\* The same without `if (opts.from) return this._openFromExisting(...)` in
\* _openCapabilities: every first session calls Core.open.
OpenBodyNoFrom(r, dsign) ==
  IF IsFirst(r)
    THEN [r EXCEPT !.openPc = "coreOpen"]
    ELSE OpenTail(r, dsign)

\* _openSession, from the keyPair derivation up to the first await after it.
\* opts.sign is the signer the constructor already stored in this.sign.
OpenBody(r, dsign) ==
  IF IsFirst(r)
    THEN [r EXCEPT !.openPc = IF r.way = "from" THEN "awaitFrom" ELSE "coreOpen"]
    ELSE OpenTail(r, dsign)

\* _openSession up to its first await.
OpenStart(r, dsign) ==
  IF ~IsFirst(r) THEN [r EXCEPT !.openPc = "awaitOpening"]
  ELSE IF r.preload THEN [r EXCEPT !.preload = FALSE, !.openPc = "preload"]
  ELSE OpenBody(r, dsign)

CallsCoreOpen(before, after) ==
  IF before.openPc # "coreOpen" /\ after.openPc = "coreOpen" THEN 1 ELSE 0

\* ------------------------------------------------------------------- Init
Idle == [name |-> "idle"]

NoResult == [name |-> "none"]

NoUpdate == [status |-> -1]

\* An operation of session s that threw or whose future rejected.
Failed(s, name, err) == [name |-> name, s |-> s, outcome |-> err]

\* A step that settles no operation, calls no _oncoreupdate and leaves the Core alone.
Quiet ==
  /\ last' = NoResult
  /\ update' = NoUpdate
  /\ UNCHANGED <<tree, log, bitfield, cache, op, userData>>

EmptyCache == [i \in Indices |-> 0]

\* new Hypercore(storage, key, opts): the root session, up to its first await.
InitWith(O) ==
  /\ n = 1
  /\ \E o \in O :
       ses = [s \in S |-> IF s = 1 THEN OpenStart(Constructor("root", 0, o, 1), FALSE)
                                   ELSE Blank]
  /\ arr = [s \in S |-> IF s = 1 THEN <<1>> ELSE <<>>]
  /\ coreOpenCalls = CallsCoreOpen(Blank, ses[1])
  /\ coreCloseCalls = 0
  /\ defaultSign = FALSE
  /\ tree = [length |-> 0, byteLength |-> 0, fork |-> 0]
  /\ log = <<>>
  /\ bitfield = {}
  /\ cache = [s \in S |-> EmptyCache]
  /\ op = [s \in S |-> Idle]
  /\ last = NoResult
  /\ update = NoUpdate
  /\ userData = 0

Init == InitWith(Opts)

\* --------------------------------------------------------------- sessions
\* session (opts) without `if (this.closing) throw`.
NewSessionUnchecked(p, o, snap) ==
  /\ n < MaxSessions
  /\ p \in Created
  /\ LET s == n + 1
         c == [OpenStart(Constructor("session", p, o, ses[p].sessions), defaultSign)
                 EXCEPT !.snapshot = snap]
     IN /\ ses' = [ses EXCEPT ![s] = PassCapabilities(c, ses[p])]
        /\ arr' = [arr EXCEPT ![ses[p].sessions] = Append(@, s)]
        /\ n' = s
  /\ UNCHANGED <<coreOpenCalls, coreCloseCalls, defaultSign>>
  /\ Quiet

\* session (opts): throws on a closing session, else makes a new session
\* sharing this.opening and this.sessions.
NewSession(p, o, snap) ==
  /\ n < MaxSessions
  /\ p \in Created
  /\ IF ses[p].closing
       THEN /\ last' = Failed(p, "session", "SessionClosing")
            /\ update' = NoUpdate
            /\ UNCHANGED <<n, ses, arr, tree, log, bitfield, cache, op, userData>>
       ELSE /\ LET s == n + 1
                   c == [OpenStart(Constructor("session", p, o, ses[p].sessions),
                                   defaultSign)
                           EXCEPT !.snapshot = snap]
               IN /\ ses' = [ses EXCEPT ![s] = PassCapabilities(c, ses[p])]
                  /\ arr' = [arr EXCEPT ![ses[p].sessions] = Append(@, s)]
                  /\ n' = s
            /\ Quiet
  /\ UNCHANGED <<coreOpenCalls, coreCloseCalls, defaultSign>>

Session(p, o) == NewSession(p, o, NoSnapshot)

\* new Hypercore({ from, ...opts }): a first session that attaches to `from`.
ConstructFrom(f, o) ==
  /\ n < MaxSessions
  /\ f \in Created
  /\ LET s == n + 1 IN
     /\ ses' = [ses EXCEPT ![s] = OpenStart(Constructor("from", f, o, s), defaultSign)]
     /\ arr' = [arr EXCEPT ![s] = <<s>>]
     /\ n' = s
     /\ coreOpenCalls' = coreOpenCalls + CallsCoreOpen(Blank, ses'[s])
  /\ UNCHANGED <<coreCloseCalls, defaultSign>>
  /\ Quiet

\* ---------------------------------------------------------------- opening
\* `if (!isFirst) await opts._opening` resumes.
OpenAwaited(s) ==
  /\ s \in Created
  /\ ses[s].openPc = "awaitOpening"
  /\ Settled(ses[ses[s].parent].openPc)
  /\ ses' = [ses EXCEPT ![s] =
       IF ses[ses[s].parent].openPc = "rejected" THEN [@ EXCEPT !.openPc = "rejected"]
       ELSE IF @.preload THEN [@ EXCEPT !.parent = 0, !.preload = FALSE, !.openPc = "preload"]
       ELSE OpenBody([@ EXCEPT !.parent = 0], defaultSign)]
  /\ coreOpenCalls' = coreOpenCalls + CallsCoreOpen(ses[s], ses'[s])
  /\ UNCHANGED <<n, arr, coreCloseCalls, defaultSign>>
  /\ Quiet

\* `await opts.preload()` settles.
Preload(s, ok) ==
  /\ s \in Created
  /\ ses[s].openPc = "preload"
  /\ LET r == IF ok THEN OpenBody(ses[s], defaultSign)
                    ELSE [ses[s] EXCEPT !.openPc = "rejected"]
     IN /\ ses' = [ses EXCEPT ![s] = r]
        /\ coreOpenCalls' = coreOpenCalls + CallsCoreOpen(ses[s], r)
  /\ UNCHANGED <<n, arr, coreCloseCalls, defaultSign>>
  /\ Quiet

\* The capability loop of the first session over this.sessions.
PassToSessions(ss, s) ==
  [t \in S |-> IF t # s /\ Count(arr[ss[s].sessions], t) > 0
                 THEN PassCapabilities(ss[t], ss[s]) ELSE ss[t]]

\* Core.open resolves: rest of _openCapabilities, the loop and the tail.
CoreOpened(s, dsign) ==
  /\ s \in Created
  /\ ses[s].openPc = "coreOpen"
  /\ defaultSign' = dsign
  /\ LET s1 == [ses EXCEPT ![s].core = TRUE, ![s].key = TRUE]
         s2 == PassToSessions(s1, s)
     IN ses' = [s2 EXCEPT ![s] = OpenTail(@, dsign)]
  /\ UNCHANGED <<n, arr, coreOpenCalls, coreCloseCalls>>
  /\ Quiet

\* _openFromExisting after `await from.opening`, then the loop and the tail.
OpenFromExisting(s) ==
  /\ s \in Created
  /\ ses[s].openPc = "awaitFrom"
  /\ Settled(ses[ses[s].parent].openPc)
  /\ LET f == ses[s].parent IN
     IF ses[f].openPc = "rejected"
       THEN /\ ses' = [ses EXCEPT ![s].openPc = "rejected"]
            /\ arr' = arr
       ELSE LET a == ses[f].sessions
                arr1 == [arr EXCEPT ![a] = Append(@, s)]
                s1 == [ses EXCEPT ![s] = [PassCapabilities(@, ses[f]) EXCEPT !.sessions = a,
                                                                    !.parent = 0]]
                s2 == [t \in S |-> IF t # s /\ Count(arr1[a], t) > 0
                                     THEN PassCapabilities(s1[t], s1[s]) ELSE s1[t]]
            IN /\ arr' = arr1
               /\ ses' = [s2 EXCEPT ![s] = OpenTail(@, defaultSign)]
  /\ UNCHANGED <<n, coreOpenCalls, coreCloseCalls, defaultSign>>
  /\ Quiet

\* `await opts._preready(this)` settles.
Preready(s, ok) ==
  /\ s \in Created
  /\ ses[s].openPc = "preready"
  /\ ses' = [ses EXCEPT ![s] =
       IF ok THEN [@ EXCEPT !.opened = TRUE, !.openPc = "resolved"]
             ELSE [@ EXCEPT !.openPc = "rejected"]]
  /\ UNCHANGED <<n, arr, coreOpenCalls, coreCloseCalls, defaultSign>>
  /\ Quiet

\* ---------------------------------------------------------------- closing
\* close (): starts _close once, which first awaits this.opening; a later call
\* returns the future of the first.
StartClose(r) ==
  IF r.closing THEN r
  ELSE [r EXCEPT !.closing = TRUE, !.closePc = "awaitOpening", !.closeRuns = @ + 1]

Close(s) ==
  /\ s \in Created
  /\ ses' = [ses EXCEPT ![s] = StartClose(@)]
  /\ UNCHANGED <<n, arr, coreOpenCalls, coreCloseCalls, defaultSign>>
  /\ Quiet

\* _close after `await this.opening`, up to its next await or its return.
CloseRun(s) ==
  /\ s \in Created
  /\ ses[s].closePc = "awaitOpening"
  /\ Settled(ses[s].openPc)
  /\ LET a == ses[s].sessions
         i == IndexOf(arr[a], s)
         rest == Splice(arr[a], i)
         r1 == [ses[s] EXCEPT !.writable = FALSE, !.closed = TRUE, !.opened = FALSE]
     IN
     IF ses[s].openPc = "rejected"
       THEN /\ ses' = [ses EXCEPT ![s].closePc = "rejected"]
            /\ UNCHANGED <<arr, coreCloseCalls>>
     ELSE IF i = 0
       THEN /\ ses' = [ses EXCEPT ![s].closePc = "done"]
            /\ UNCHANGED <<arr, coreCloseCalls>>
     ELSE IF Len(rest) > 0
       THEN /\ arr' = [arr EXCEPT ![a] = rest]
            /\ coreCloseCalls' = coreCloseCalls
            /\ IF Len(rest) = 1 /\ ses[s].autoClose
                 THEN ses' = [ses EXCEPT
                        ![s] = [r1 EXCEPT !.closePc = "awaitAuto", !.autoTarget = rest[1]],
                        ![rest[1]] = StartClose(@)]
                 ELSE ses' = [ses EXCEPT
                        ![s] = [r1 EXCEPT !.closePc = "done",
                                          !.closeEv = Append(@, FALSE)]]
     ELSE /\ arr' = [arr EXCEPT ![a] = rest]
          /\ IF ses[s].core
               THEN /\ coreCloseCalls' = coreCloseCalls + 1
                    /\ ses' = [ses EXCEPT ![s] = [r1 EXCEPT !.closePc = "awaitCoreClose"]]
               ELSE /\ coreCloseCalls' = coreCloseCalls
                    /\ ses' = [ses EXCEPT ![s] = [r1 EXCEPT !.closePc = "rejected"]]
  /\ UNCHANGED <<n, coreOpenCalls, defaultSign>>
  /\ Quiet

\* `await this.sessions[0].close()` settles, then the "fake" close is emitted.
CloseAuto(s) ==
  /\ s \in Created
  /\ ses[s].closePc = "awaitAuto"
  /\ ses[ses[s].autoTarget].closePc \in {"done", "rejected"}
  /\ ses' = [ses EXCEPT ![s] =
       IF ses[ses[s].autoTarget].closePc = "rejected"
         THEN [@ EXCEPT !.closePc = "rejected"]
         ELSE [@ EXCEPT !.closePc = "done", !.autoTarget = 0,
                        !.closeEv = Append(@, FALSE)]]
  /\ UNCHANGED <<n, arr, coreOpenCalls, coreCloseCalls, defaultSign>>
  /\ Quiet

\* `await this.core.close()` resolves, then close(true) is emitted.
CoreClosed(s) ==
  /\ s \in Created
  /\ ses[s].closePc = "awaitCoreClose"
  /\ ses' = [ses EXCEPT ![s] = [@ EXCEPT !.closePc = "done", !.closeEv = Append(@, TRUE)]]
  /\ UNCHANGED <<n, arr, coreOpenCalls, coreCloseCalls, defaultSign>>
  /\ Quiet

\* ---------------------------------------------------------------- getters
\* get padding (): no encryption key is configured, so encryption is null.
Padding == 0

\* get length () without the snapshot branch.
LengthOfCore(r) == IF ~r.core THEN 0 ELSE tree.length

\* get length ()
Length(r) ==
  IF r.snapshot # NoSnapshot THEN r.snapshot[1]
  ELSE IF ~r.core THEN 0 ELSE tree.length

\* get byteLength ()
ByteLength(r) ==
  IF r.snapshot # NoSnapshot THEN r.snapshot[2]
  ELSE IF ~r.core THEN 0 ELSE tree.byteLength - (tree.length * Padding)

\* get fork ()
Fork(r) ==
  IF r.snapshot # NoSnapshot THEN r.snapshot[3]
  ELSE IF ~r.core THEN 0 ELSE tree.fork

\* snapshot (): a session pinned to the current (length, byteLength, fork).
Snapshot(p) ==
  \E o \in SnapshotOpts :
    NewSession(p, o, <<Length(ses[p]), ByteLength(ses[p]), Fork(ses[p])>>)

\* ------------------------------------------------------------- the Core
RECURSIVE Sum(_)
Sum(seq) == IF seq = <<>> THEN 0 ELSE Head(seq) + Sum(Tail(seq))

\* The session whose _openCapabilities called Core.open: `this` of _oncoreupdate.
CoreOwner == 1

\* core.bitfield.get(index)
BitfieldGet(i) == i \in bitfield

\* The block the Core holds at index i (0: none).
StoredAt(i) == IF i \in bitfield /\ i < Len(log) THEN log[i + 1] ELSE 0

\* _encode / _decode with no valueEncoding and padding 0: the bytes themselves.
Encode(b) == b

Decode(b) == b

\* _oncoreupdate (status, ...): the caches after the update. The truncate bit
\* clears this.cache, inside the loop over this.sessions.
OnCoreUpdate(status) ==
  IF status \in {2, 3} /\ Len(arr[ses[CoreOwner].sessions]) > 0 /\ ses[CoreOwner].cache
    THEN [cache EXCEPT ![CoreOwner] = EmptyCache]
    ELSE cache

\* _oncoreupdate: one pass of the status loop, for the session t = sessions[i].
StatusLoopBody(t, status) ==
  (IF status \in {2, 3}
     THEN (IF ses[CoreOwner].cache THEN <<[ev |-> "clear", s |-> CoreOwner]>> ELSE <<>>)
          \o <<[ev |-> "truncate", s |-> t]>>
     ELSE <<>>)
  \o (IF status \in {1, 3} THEN <<[ev |-> "append", s |-> t]>> ELSE <<>>)

RECURSIVE StatusLoop(_, _)
StatusLoop(ss, status) ==
  IF ss = <<>> THEN <<>>
  ELSE StatusLoopBody(Head(ss), status) \o StatusLoop(Tail(ss), status)

\* _oncoreupdate (status, bitfield, value, from): the cache clears and the
\* events it emits, in order (value: a block came with the update).
Emitted(status, value) ==
  LET ss == arr[ses[CoreOwner].sessions] IN
  (IF status # 0 THEN StatusLoop(ss, status) ELSE <<>>)
  \o (IF value THEN [i \in 1..Len(ss) |-> [ev |-> "download", s |-> ss[i]]] ELSE <<>>)

\* The record of one onupdate call of the Core.
CoreUpdate(status, value) ==
  [status |-> status, value |-> value, events |-> Emitted(status, value)]

\* ------------------------------------------------------------ operations
Settle(s, r) ==
  /\ op' = [op EXCEPT ![s] = Idle]
  /\ last' = r

GetResult(s, i, w, v, local, requested) ==
  [name |-> "get", s |-> s, outcome |-> "resolved", index |-> i, wait |-> w,
   value |-> v, local |-> local, stored |-> StoredAt(i), requested |-> requested]

\* get (index, opts) after the opening await, up to the await on _get's source.
RunGet(s, i, w) ==
  IF ses[s].cache /\ cache[s][i] # 0
    THEN Settle(s, GetResult(s, i, w, cache[s][i], BitfieldGet(i), FALSE))
         /\ UNCHANGED cache
  ELSE IF ~ses[s].core
    THEN Settle(s, Failed(s, "get", "TypeError")) /\ UNCHANGED cache
  ELSE IF BitfieldGet(i)
    THEN /\ op' = [op EXCEPT ![s] = [name |-> "get", pc |-> "blocks", index |-> i,
                                     wait |-> w, fork |-> tree.fork,
                                     read |-> StoredAt(i)]]
         /\ last' = NoResult
         /\ UNCHANGED cache
  ELSE IF ~w
    THEN Settle(s, GetResult(s, i, w, 0, FALSE, FALSE)) /\ UNCHANGED cache
  ELSE /\ op' = [op EXCEPT ![s] = [name |-> "get", pc |-> "request", index |-> i,
                                   wait |-> w, fork |-> tree.fork]]
       /\ last' = NoResult
       /\ UNCHANGED cache

\* append without `if (this.writable === false) throw`.
RunAppendUnchecked(s, bs) ==
  IF ~ses[s].core
    THEN Settle(s, Failed(s, "append", "TypeError"))
  ELSE /\ op' = [op EXCEPT ![s] = [name |-> "append", pc |-> "core",
                                   blocks |-> [k \in 1..Len(bs) |-> Encode(bs[k])]]]
       /\ last' = NoResult

\* append (blocks) after the opening await, up to `await this.core.append`.
RunAppend(s, bs) ==
  IF ~ses[s].writable
    THEN Settle(s, Failed(s, "append", "NotWritable"))
  ELSE IF ~ses[s].core
    THEN Settle(s, Failed(s, "append", "TypeError"))
  ELSE /\ op' = [op EXCEPT ![s] = [name |-> "append", pc |-> "core",
                                   blocks |-> [k \in 1..Len(bs) |-> Encode(bs[k])]]]
       /\ last' = NoResult

\* truncate (newLength, fork) after the opening await, up to `await this.core.truncate`.
RunTruncate(s, nl, f) ==
  IF ~ses[s].writable
    THEN Settle(s, Failed(s, "truncate", "NotWritable"))
  ELSE IF ~ses[s].core
    THEN Settle(s, Failed(s, "truncate", "TypeError"))
  ELSE /\ op' = [op EXCEPT ![s] = [name |-> "truncate", pc |-> "core", length |-> nl,
                                   fork |-> IF f = -1 THEN tree.fork + 1 ELSE f,
                                   omitted |-> (f = -1)]]
       /\ last' = NoResult

\* has (index) after the opening await.
RunHas(s, i) ==
  IF ~ses[s].core
    THEN Settle(s, Failed(s, "has", "TypeError"))
    ELSE Settle(s, [name |-> "has", s |-> s, outcome |-> "resolved", index |-> i,
                    value |-> BitfieldGet(i)])

\* The number of operations in flight.
Pending == Cardinality({t \in S : op[t] # Idle})

\* `if (this.opened === false) await this.opening` of an operation.
AwaitOpening(s, call) ==
  /\ op' = [op EXCEPT ![s] = [call EXCEPT !.pc = "opening"]]
  /\ last' = NoResult
  /\ UNCHANGED cache

\* What a step of an operation outside the Core leaves alone.
NoCoreStep ==
  /\ update' = NoUpdate
  /\ UNCHANGED <<n, ses, arr, coreOpenCalls, coreCloseCalls, defaultSign, tree, log,
                 bitfield, userData>>

Get(s, i, w) ==
  /\ s \in Created /\ op[s] = Idle /\ Pending < MaxPending
  /\ IF ses[s].opened THEN RunGet(s, i, w)
     ELSE AwaitOpening(s, [name |-> "get", pc |-> "call", index |-> i, wait |-> w])
  /\ NoCoreStep

Has(s, i) ==
  /\ s \in Created /\ op[s] = Idle /\ Pending < MaxPending
  /\ IF ses[s].opened THEN RunHas(s, i)
     ELSE AwaitOpening(s, [name |-> "has", pc |-> "call", index |-> i])
  /\ NoCoreStep /\ UNCHANGED cache

\* append (blocks); named AppendOp as Sequences defines Append.
AppendOp(s, bs) ==
  /\ s \in Created /\ op[s] = Idle /\ Pending < MaxPending
  /\ Len(log) + Len(bs) <= MaxLen
  /\ IF ses[s].opened THEN RunAppend(s, bs)
     ELSE AwaitOpening(s, [name |-> "append", pc |-> "call", blocks |-> bs])
  /\ NoCoreStep /\ UNCHANGED cache

Truncate(s, nl, f) ==
  /\ s \in Created /\ op[s] = Idle /\ Pending < MaxPending
  /\ nl <= Len(log)
  /\ IF f = -1 THEN tree.fork < MaxFork ELSE f >= tree.fork
  /\ IF ses[s].opened THEN RunTruncate(s, nl, f)
     ELSE AwaitOpening(s, [name |-> "truncate", pc |-> "call", length |-> nl, fork |-> f])
  /\ NoCoreStep /\ UNCHANGED cache

\* ------------------------------------- userData, update, seek, treeHash
Resolved(s, name, v) == [name |-> name, s |-> s, outcome |-> "resolved", value |-> v]

\* An operation goes on to its next await without settling.
Pend(s, call) ==
  /\ op' = [op EXCEPT ![s] = call]
  /\ last' = NoResult

\* setUserData (key, value) after the opening await: `return this.core.userData(...)`.
RunSetUserData(s, v) ==
  IF ~ses[s].core
    THEN Settle(s, Failed(s, "setUserData", "TypeError"))
    ELSE Pend(s, [name |-> "setUserData", pc |-> "core", value |-> v])

\* getUserData (key) after the opening await: the loop over core.header.userData.
RunGetUserData(s) ==
  IF ~ses[s].core
    THEN Settle(s, Failed(s, "getUserData", "TypeError"))
    ELSE Settle(s, Resolved(s, "getUserData", userData))

\* update () after the opening await.
RunUpdate(s) ==
  IF ses[s].writable
    THEN Settle(s, Resolved(s, "update", FALSE))
  ELSE IF ~ses[s].core
    THEN Settle(s, Failed(s, "update", "TypeError"))
  ELSE Pend(s, [name |-> "update", pc |-> "upgrade"])

\* core.tree.seek(bytes, padding) over the blocks held: the block the byte
\* offset falls into and the offset inside it.
RECURSIVE SeekFrom(_, _, _)
SeekFrom(seq, i, bytes) ==
  IF seq = <<>> \/ bytes < Head(seq) THEN <<i, bytes>>
  ELSE SeekFrom(Tail(seq), i + 1, bytes - Head(seq))

\* seek (bytes) after the opening await: answered from the local tree, else
\* handed to replicator.requestSeek.
RunSeek(s, bytes) ==
  IF ~ses[s].core
    THEN Settle(s, Failed(s, "seek", "TypeError"))
  ELSE IF bytes < tree.byteLength
    THEN Settle(s, Resolved(s, "seek", SeekFrom(log, 0, bytes)))
  ELSE Pend(s, [name |-> "seek", pc |-> "requestSeek", bytes |-> bytes])

\* core.tree.getRoots(length) and crypto.tree(roots): the hash stands for the
\* length and the bytes below it.
TreeHashOf(len) == <<len, Sum(SubSeq(log, 1, len))>>

\* treeHash (length), from `await this.core.tree.getRoots(length)`; l = -1: the
\* length was undefined and is now core.length.
RunTreeHash(s, l) ==
  IF ~ses[s].core
    THEN Settle(s, Failed(s, "treeHash", "TypeError"))
  ELSE IF (IF l = -1 THEN tree.length ELSE l) > tree.length
    THEN Settle(s, Failed(s, "treeHash", "BadLength"))
  ELSE Settle(s, Resolved(s, "treeHash", TreeHashOf(IF l = -1 THEN tree.length ELSE l)))

SetUserData(s, v) ==
  /\ s \in Created /\ op[s] = Idle /\ Pending < MaxPending
  /\ IF ses[s].opened THEN RunSetUserData(s, v) /\ UNCHANGED cache
     ELSE AwaitOpening(s, [name |-> "setUserData", pc |-> "call", value |-> v])
  /\ NoCoreStep

GetUserData(s) ==
  /\ s \in Created /\ op[s] = Idle /\ Pending < MaxPending
  /\ IF ses[s].opened THEN RunGetUserData(s) /\ UNCHANGED cache
     ELSE AwaitOpening(s, [name |-> "getUserData", pc |-> "call"])
  /\ NoCoreStep

Update(s) ==
  /\ s \in Created /\ op[s] = Idle /\ Pending < MaxPending
  /\ IF ses[s].opened THEN RunUpdate(s) /\ UNCHANGED cache
     ELSE AwaitOpening(s, [name |-> "update", pc |-> "call"])
  /\ NoCoreStep

Seek(s, bytes) ==
  /\ s \in Created /\ op[s] = Idle /\ Pending < MaxPending
  /\ IF ses[s].opened THEN RunSeek(s, bytes) /\ UNCHANGED cache
     ELSE AwaitOpening(s, [name |-> "seek", pc |-> "call", bytes |-> bytes])
  /\ NoCoreStep

\* treeHash (length): only an undefined length (l = -1) awaits this.ready().
TreeHash(s, l) ==
  /\ s \in Created /\ op[s] = Idle /\ Pending < MaxPending
  /\ IF l = -1 /\ ~Settled(ses[s].openPc)
       THEN AwaitOpening(s, [name |-> "treeHash", pc |-> "call", length |-> l])
     ELSE IF l = -1 /\ ses[s].openPc = "rejected"
       THEN Settle(s, Failed(s, "treeHash", "OpeningError")) /\ UNCHANGED cache
     ELSE RunTreeHash(s, l) /\ UNCHANGED cache
  /\ NoCoreStep

\* core.userData(key, value) writes the header and resolves.
CoreUserData(s) ==
  /\ s \in Created
  /\ op[s] # Idle /\ op[s].name = "setUserData" /\ op[s].pc = "core"
  /\ userData' = op[s].value
  /\ Settle(s, Resolved(s, "setUserData", op[s].value))
  /\ update' = NoUpdate
  /\ UNCHANGED <<n, ses, arr, coreOpenCalls, coreCloseCalls, defaultSign, tree, log,
                 bitfield, cache>>

\* replicator.requestUpgrade() resolves: whether a peer had a longer log.
RequestUpgrade(s, upgraded) ==
  /\ s \in Created
  /\ op[s] # Idle /\ op[s].name = "update" /\ op[s].pc = "upgrade"
  /\ Settle(s, Resolved(s, "update", upgraded))
  /\ NoCoreStep /\ UNCHANGED cache

\* replicator.requestSeek(s) resolves once the log covers the byte offset.
RequestSeek(s) ==
  /\ s \in Created
  /\ op[s] # Idle /\ op[s].name = "seek" /\ op[s].pc = "requestSeek"
  /\ op[s].bytes < tree.byteLength
  /\ Settle(s, Resolved(s, "seek", SeekFrom(log, 0, op[s].bytes)))
  /\ NoCoreStep /\ UNCHANGED cache

\* The opening future an operation awaits settles: a rejection is rethrown.
OpAwaited(s) ==
  /\ s \in Created
  /\ op[s] # Idle /\ op[s].pc = "opening"
  /\ Settled(ses[s].openPc)
  /\ IF ses[s].openPc = "rejected"
       THEN Settle(s, Failed(s, op[s].name, "OpeningError")) /\ UNCHANGED cache
     ELSE IF op[s].name = "get" THEN RunGet(s, op[s].index, op[s].wait)
     ELSE IF op[s].name = "has" THEN RunHas(s, op[s].index) /\ UNCHANGED cache
     ELSE IF op[s].name = "append" THEN RunAppend(s, op[s].blocks) /\ UNCHANGED cache
     ELSE IF op[s].name = "setUserData"
       THEN RunSetUserData(s, op[s].value) /\ UNCHANGED cache
     ELSE IF op[s].name = "getUserData" THEN RunGetUserData(s) /\ UNCHANGED cache
     ELSE IF op[s].name = "update" THEN RunUpdate(s) /\ UNCHANGED cache
     ELSE IF op[s].name = "seek" THEN RunSeek(s, op[s].bytes) /\ UNCHANGED cache
     ELSE IF op[s].name = "treeHash" THEN RunTreeHash(s, op[s].length) /\ UNCHANGED cache
     ELSE /\ op[s].fork = -1 => tree.fork < MaxFork
          /\ RunTruncate(s, op[s].length, op[s].fork) /\ UNCHANGED cache
  /\ NoCoreStep

\* get, from the block to the end: decode, cache if the fork is the same.
FinishGet(s, b, local) ==
  /\ cache' = IF ses[s].cache /\ op[s].fork = tree.fork /\ Decode(b) # 0
                THEN [cache EXCEPT ![s][op[s].index] = Decode(b)]
                ELSE cache
  /\ Settle(s, GetResult(s, op[s].index, op[s].wait, Decode(b), local, ~local))

\* `await this.core.blocks.get(index)` settles. The storage served the read
\* either when it was issued (the block stored then) or only now (late): the
\* block stored now, or a storage error when a truncation removed it meanwhile.
BlocksGet(s, late) ==
  /\ s \in Created
  /\ op[s] # Idle /\ op[s].name = "get" /\ op[s].pc = "blocks"
  /\ IF ~late THEN FinishGet(s, op[s].read, TRUE)
     ELSE IF StoredAt(op[s].index) = 0
       THEN Settle(s, Failed(s, "get", "StorageError")) /\ UNCHANGED cache
       ELSE FinishGet(s, StoredAt(op[s].index), TRUE)
  /\ NoCoreStep

\* `await this.replicator.requestBlock(index)` resolves once the block is held.
RequestBlock(s) ==
  /\ s \in Created
  /\ op[s] # Idle /\ op[s].name = "get" /\ op[s].pc = "request"
  /\ StoredAt(op[s].index) # 0
  /\ FinishGet(s, StoredAt(op[s].index), FALSE)
  /\ NoCoreStep

\* core.append applies the batch, calls onupdate (v: with the block as value)
\* and resolves.
CoreAppend(s, v) ==
  /\ s \in Created
  /\ op[s] # Idle /\ op[s].name = "append" /\ op[s].pc = "core"
  /\ Len(log) + Len(op[s].blocks) <= MaxLen
  /\ op[s].blocks = <<>> => ~v
  /\ update' = CoreUpdate(IF op[s].blocks = <<>> THEN 0 ELSE 1, v)
  /\ log' = log \o op[s].blocks
  /\ tree' = [tree EXCEPT !.length = Len(log'), !.byteLength = Sum(log')]
  /\ bitfield' = bitfield \cup {i \in Indices : Len(log) <= i /\ i < Len(log')}
  /\ cache' = OnCoreUpdate(IF op[s].blocks = <<>> THEN 0 ELSE 1)
  /\ Settle(s, [name |-> "append", s |-> s, outcome |-> "resolved",
                blocks |-> op[s].blocks, before |-> tree,
                length |-> tree'.length, byteLength |-> tree'.byteLength])
  /\ UNCHANGED <<n, ses, arr, coreOpenCalls, coreCloseCalls, defaultSign, userData>>

\* core.truncate applies the truncation, calls onupdate and resolves; then
\* truncate calls replicator.updateAll().
CoreTruncate(s) ==
  /\ s \in Created
  /\ op[s] # Idle /\ op[s].name = "truncate" /\ op[s].pc = "core"
  /\ IF op[s].length > Len(log)
       THEN /\ Settle(s, Failed(s, "truncate", "BadLength"))
            /\ update' = NoUpdate
            /\ UNCHANGED <<log, tree, bitfield, cache>>
       ELSE /\ log' = SubSeq(log, 1, op[s].length)
            /\ update' = CoreUpdate(2, FALSE)
            /\ tree' = [length |-> Len(log'), byteLength |-> Sum(log'), fork |-> op[s].fork]
            /\ bitfield' = {i \in bitfield : i < op[s].length}
            /\ cache' = OnCoreUpdate(2)
            /\ Settle(s, [name |-> "truncate", s |-> s, outcome |-> "resolved",
                          length |-> op[s].length, fork |-> op[s].fork,
                          omitted |-> op[s].omitted, before |-> tree])
  /\ UNCHANGED <<n, ses, arr, coreOpenCalls, coreCloseCalls, defaultSign, userData>>

\* The Core verifies a remote proof that carries the block b: an upgrade to a
\* longer log (append bit), or a reorg that cuts the log to k blocks on the next
\* fork and extends it (truncate and append bits); then it calls onupdate with
\* the block as value. Only the holder of the secret key signs new roots, so
\* this happens on a Core that no local session can sign for.
CoreVerify(reorg, k, b) ==
  /\ ses[CoreOwner].core
  /\ ~defaultSign /\ \A s \in Created : ~ses[s].sign
  /\ k <= Len(log) /\ k + 1 <= MaxLen
  /\ IF reorg THEN tree.fork < MaxFork ELSE k = Len(log)
  /\ log' = Append(SubSeq(log, 1, k), b)
  /\ tree' = [length |-> Len(log'), byteLength |-> Sum(log'),
              fork |-> IF reorg THEN tree.fork + 1 ELSE tree.fork]
  /\ bitfield' = {i \in bitfield : i < k} \cup {k}
  /\ cache' = OnCoreUpdate(IF reorg THEN 3 ELSE 1)
  /\ update' = CoreUpdate(IF reorg THEN 3 ELSE 1, TRUE)
  /\ last' = NoResult
  /\ UNCHANGED <<n, ses, arr, coreOpenCalls, coreCloseCalls, defaultSign, op, userData>>

AppendArgs == {<<>>} \cup {<<b>> : b \in Blocks} \cup {<<a, b>> : a, b \in Blocks}

\* ------------------------------------------------------------------- Next
Next ==
  \/ \E p \in S, o \in SessionOpts : Session(p, o)
  \/ \E p \in S : Snapshot(p)
  \/ \E f \in S, o \in Opts : ConstructFrom(f, o)
  \/ \E s \in S : OpenAwaited(s)
  \/ \E s \in S, ok \in BOOLEAN : Preload(s, ok)
  \/ \E s \in S, d \in BOOLEAN : CoreOpened(s, d)
  \/ \E s \in S : OpenFromExisting(s)
  \/ \E s \in S, ok \in BOOLEAN : Preready(s, ok)
  \/ \E s \in S : Close(s)
  \/ \E s \in S : CloseRun(s)
  \/ \E s \in S : CloseAuto(s)
  \/ \E s \in S : CoreClosed(s)

Spec == Init /\ [][Next]_vars

\* The data specification: sessions without hooks, and the operations on blocks.
DataInit == InitWith(DataOpts)

DataNext ==
  \/ \E p \in S, o \in DataSessionOpts : n < DataSessions /\ Session(p, o)
  \/ \E p \in S : n < DataSessions /\ Snapshot(p)
  \/ \E s \in S : OpenAwaited(s)
  \/ \E s \in S, ok \in BOOLEAN : Preload(s, ok)
  \/ \E s \in S, d \in BOOLEAN : CoreOpened(s, d)
  \/ \E s \in S, i \in Indices, w \in BOOLEAN : Get(s, i, w)
  \/ \E s \in S, i \in Indices : Has(s, i)
  \/ \E s \in S, bs \in AppendArgs : AppendOp(s, bs)
  \/ \E s \in S, nl \in 0..MaxLen, f \in -1..MaxFork : Truncate(s, nl, f)
  \/ \E s \in S : OpAwaited(s)
  \/ \E s \in S, late \in BOOLEAN : BlocksGet(s, late)
  \/ \E s \in S : RequestBlock(s)
  \/ \E s \in S, v \in BOOLEAN : CoreAppend(s, v)
  \/ \E s \in S : CoreTruncate(s)
  \/ \E reorg \in BOOLEAN, k \in 0..MaxLen, b \in Blocks : CoreVerify(reorg, k, b)

DataSpec == DataInit /\ [][DataNext]_vars

\* The operations specification: the root session alone, with or without a
\* hook, every asynchronous operation on it, remote updates, and close.
OpsOpts == {o \in AllOpts : ~o.cache /\ ~o.autoClose}

SeekBytes == 0..(MaxBlock * MaxLen - 1)

OpsInit == InitWith(OpsOpts)

OpsNext ==
  \/ \E s \in S, ok \in BOOLEAN : Preload(s, ok)
  \/ \E s \in S, d \in BOOLEAN : CoreOpened(s, d)
  \/ \E s \in S, ok \in BOOLEAN : Preready(s, ok)
  \/ \E s \in S : Close(s)
  \/ \E s \in S : CloseRun(s)
  \/ \E s \in S : CoreClosed(s)
  \/ \E s \in S, i \in Indices, w \in BOOLEAN : Get(s, i, w)
  \/ \E s \in S, i \in Indices : Has(s, i)
  \/ \E s \in S, bs \in AppendArgs : AppendOp(s, bs)
  \/ \E s \in S, nl \in 0..MaxLen, f \in -1..MaxFork : Truncate(s, nl, f)
  \/ \E s \in S, v \in Blocks : SetUserData(s, v)
  \/ \E s \in S : GetUserData(s)
  \/ \E s \in S : Update(s)
  \/ \E s \in S, bytes \in SeekBytes : Seek(s, bytes)
  \/ \E s \in S, l \in -1..MaxLen : TreeHash(s, l)
  \/ \E s \in S : OpAwaited(s)
  \/ \E s \in S, late \in BOOLEAN : BlocksGet(s, late)
  \/ \E s \in S : RequestBlock(s)
  \/ \E s \in S, u \in BOOLEAN : RequestUpgrade(s, u)
  \/ \E s \in S : RequestSeek(s)
  \/ \E s \in S, v \in BOOLEAN : CoreAppend(s, v)
  \/ \E s \in S : CoreTruncate(s)
  \/ \E s \in S : CoreUserData(s)
  \/ \E reorg \in BOOLEAN, k \in 0..MaxLen, b \in Blocks : CoreVerify(reorg, k, b)

OpsSpec == OpsInit /\ [][OpsNext]_vars

\* ----------------------------------------------------------------- claims
\* The session set of the Log: the array the root session allocated.
LogSessions == arr[1]

CoreOpen == \E s \in Created : ses[s].core

\* C1: every session emits at most one close event, at most one session emits
\* close(true), a session that has left the set has emitted its close event,
\* and Core.close is invoked at most once, and once when close(true) was emitted.
C1_CloseOnce ==
  /\ coreCloseCalls <= 1
  /\ \A s \in Created : Len(ses[s].closeEv) <= 1
  /\ Cardinality({s \in Created : ses[s].closeEv = <<TRUE>>}) <= 1
  /\ \A s \in Created : ses[s].closePc = "done" /\ ses[s].closed => Len(ses[s].closeEv) = 1
  /\ \A s \in Created : ses[s].closeEv = <<TRUE>> => coreCloseCalls = 1

\* C2: once close() has been called on every session and every close future has
\* settled, Core.close has been invoked on the Core that was opened (no step of
\* the code is left that could still invoke it).
C2_ReleasedWhenAllClosed ==
  (/\ CoreOpen
   /\ \A s \in Created : ses[s].closing /\ ses[s].closePc \in {"done", "rejected"})
  => coreCloseCalls > 0

\* C3: once Core.close has been invoked the shared session set is empty and no
\* session is opened on the closed Core.
C3_ClosedCoreHasNoSessions ==
  coreCloseCalls > 0 =>
    /\ LogSessions = <<>>
    /\ \A s \in Created : ~(ses[s].opened /\ ses[s].core)

\* C4 (as claimed): in every state, for every session, writable iff a signer is present.
C4_WritableIffSign ==
  \A s \in Created : ses[s].writable <=> ses[s].sign

\* C4 (amended): writable implies a signer in every state, and an opened session
\* is writable iff it has a signer.
C4_OpenedWritableIffSign ==
  \A s \in Created :
    /\ ses[s].writable => ses[s].sign
    /\ ses[s].opened => (ses[s].writable <=> ses[s].sign)

\* C4 witness: an opened writable session that received its signer through
\* _passCapabilities, next to a closed session that still holds its signer.
C4_Witness ==
  \E s, t \in Created :
    /\ ses[s].way = "session" /\ ses[s].opened /\ ses[s].writable /\ ses[s].sign
    /\ ses[t].closed /\ ses[t].sign /\ ~ses[t].writable

\* C7: all opened sessions of the Log hold one and the same session set, and
\* each of them is a member of it exactly once.
C7_OneSessionSet ==
  \A s \in Created :
    ses[s].opened =>
      /\ ses[s].sessions = ses[1].sessions
      /\ Count(arr[ses[s].sessions], s) = 1

\* C5: when truncate(n, f) completes, every non-snapshot session observes
\* length n and fork f and no configured cache holds an entry; and a
\* get(i, {wait: false}) of an index at or past the length resolves to null.
C5_AfterTruncate ==
  /\ (last.name = "truncate" /\ last.outcome = "resolved") =>
       /\ \A s \in Created : ses[s].snapshot = NoSnapshot =>
            Length(ses[s]) = last.length /\ Fork(ses[s]) = last.fork
       /\ \A s \in Created : ses[s].cache => cache[s] = EmptyCache
  /\ (last.name = "get" /\ last.outcome = "resolved" /\ ~last.wait
        /\ last.index >= tree.length) => last.value = 0

\* The (length, byteLength, fork) a session observes.
Triple(r) == <<Length(r), ByteLength(r), Fork(r)>>

\* C6: a snapshot session observes, when it is created, the triple its parent
\* observes at that moment, and the same triple in every later state.
C6_SnapshotConstant ==
  [][\A s \in S :
       /\ ses[s].snapshot # NoSnapshot => Triple(ses[s])' = Triple(ses[s])
       /\ (ses[s].way = "none" /\ ses'[s].snapshot # NoSnapshot) =>
            Triple(ses[s])' = Triple(ses[ses'[s].parent])]_vars

\* C6 witness: a snapshot session whose Core has since grown and forked.
C6_Witness ==
  \E s \in Created :
    /\ ses[s].snapshot # NoSnapshot /\ ses[s].core
    /\ ses[s].snapshot[1] # tree.length
    /\ ses[s].snapshot[2] # tree.byteLength
    /\ ses[s].snapshot[3] # tree.fork

\* C8: get resolves to null iff wait is false and the block is absent locally,
\* then without a request to the Replicator; otherwise it resolves to a block.
C8_GetNullIffNoWaitAbsent ==
  (last.name = "get" /\ last.outcome = "resolved") =>
    /\ (last.value = 0) <=> (~last.wait /\ ~last.local)
    /\ last.value = 0 => ~last.requested
    /\ last.requested => ~last.local

NotWritableOutcome(s, name) ==
  /\ last' = Failed(s, name, "NotWritable")
  /\ op' = [op EXCEPT ![s] = Idle]
  /\ UNCHANGED <<tree, log, bitfield, cache, arr, ses>>

\* C9: when append or truncate reaches its writable check on a session whose
\* writable is false, it fails with the not-writable error, calls neither
\* Core.append nor Core.truncate (nor updateAll, which follows Core.truncate)
\* and changes neither the tree, the blocks, the caches nor the session set.
C9_NotWritableRejected ==
  [][\A s \in S :
       /\ (ses[s].opened /\ ~ses[s].writable /\ \E bs \in AppendArgs : AppendOp(s, bs))
            => NotWritableOutcome(s, "append")
       /\ (ses[s].opened /\ ~ses[s].writable
             /\ \E nl \in 0..MaxLen, f \in -1..MaxFork : Truncate(s, nl, f))
            => NotWritableOutcome(s, "truncate")
       /\ (~ses[s].writable /\ ses[s].openPc = "resolved" /\ OpAwaited(s)
             /\ op[s].name \in {"append", "truncate"})
            => NotWritableOutcome(s, op[s].name)]_vars

\* C9 witness: an append or truncate has just failed as not writable.
C9_Witness == last.name \in {"append", "truncate"} /\ last.outcome = "NotWritable"

\* C10: when append(blocks) completes the length has grown by the number of
\* blocks, every index below the length is held, the new indices hold the
\* appended blocks and an empty batch changes nothing; and a get of an index
\* the Core holds resolves to the block stored at it.
C10_AfterAppend ==
  /\ (last.name = "append" /\ last.outcome = "resolved") =>
       /\ last.length = last.before.length + Len(last.blocks)
       /\ tree.length = last.length
       /\ \A i \in Indices : i < tree.length => BitfieldGet(i)
       /\ \A k \in 1..Len(last.blocks) :
            StoredAt(last.before.length + k - 1) = last.blocks[k]
       /\ last.blocks = <<>> => [tree EXCEPT !.fork = 0] = [last.before EXCEPT !.fork = 0]
  /\ (last.name = "get" /\ last.outcome = "resolved" /\ last.stored # 0) =>
       last.value = last.stored

\* `this.opened = true; this.emit('ready')`: the session has emitted ready.
ReadyEmitted(r) == r.openPc = "resolved"

UpdateEvents == {"truncate", "append", "download"}

\* C11: every append, truncate or download event of a Core update is emitted
\* on a session that has emitted ready before.
C11_ReadyFirst ==
  update # NoUpdate =>
    \A i \in 1..Len(update.events) :
      update.events[i].ev \in UpdateEvents => ReadyEmitted(ses[update.events[i].s])

\* C12: on every session _close runs at most once however often close() is
\* called, at most one close event is emitted, and once the close future has
\* settled the session has left the set and has emitted exactly one close event.
C12_CloseIdempotent ==
  \A s \in Created :
    /\ ses[s].closeRuns <= 1
    /\ Len(ses[s].closeEv) <= 1
    /\ ses[s].closePc \in {"done", "rejected"} =>
         /\ Count(arr[ses[s].sessions], s) = 0
         /\ Len(ses[s].closeEv) = 1

C14_AutoClose ==
  [][\A s \in S :
       /\ (CloseRun(s) /\ ses[s].autoClose /\ arr' # arr
             /\ Len(arr'[ses[s].sessions]) = 1)
            => /\ ses'[arr'[ses[s].sessions][1]].closing
               /\ ses'[s].closeEv = <<>>
       /\ CloseAuto(s)
            => /\ ses[ses[s].autoTarget].closeEv = <<TRUE>>
               /\ coreCloseCalls = 1
               /\ ses'[s].closeEv = <<FALSE>>]_vars

\* C15: every entry of a session's cache is for an index below the length of
\* the Core and holds the block the Core stores at that index.
C15_CacheValid ==
  \A s \in Created :
    ses[s].cache =>
      \A i \in Indices :
        cache[s][i] # 0 => (i < tree.length /\ cache[s][i] = StoredAt(i))

C17_CoreOpenOnce ==
  /\ coreOpenCalls <= 1
  /\ \A s \in Created : ses[s].openPc = "coreOpen" => (ses[s].way = "root" /\ coreOpenCalls = 1)
  /\ \A s \in Created : ses[s].core => coreOpenCalls = 1
  /\ ses[1].openPc = "resolved" => coreOpenCalls = 1

\* C17 witness: a session made by session() or snapshot() and a session made
\* with `from` have both opened on the Core the root opened with one call.
C17_Witness ==
  /\ coreOpenCalls = 1
  /\ \E s, t \in Created :
       /\ ses[s].way = "session" /\ ses[s].opened /\ ses[s].core
       /\ ses[t].way = "from" /\ ses[t].opened /\ ses[t].core

\* C18: when a truncate called without a fork argument has been applied, the
\* fork of the Core is one greater than it was just before the application.
C18_ForkBumped ==
  (last.name = "truncate" /\ last.outcome = "resolved" /\ last.omitted) =>
    tree.fork = last.before.fork + 1

\* The events of the last Core update emitted on session t, in order.
EventsOn(t) ==
  LET sel == SelectSeq(update.events, LAMBDA e : e.s = t /\ e.ev \in UpdateEvents)
  IN [i \in 1..Len(sel) |-> sel[i].ev]

\* The events one session is due from an update: truncate, append, download.
EventsDue(status, value) ==
  (IF status \in {2, 3} THEN <<"truncate">> ELSE <<>>)
  \o (IF status \in {1, 3} THEN <<"append">> ELSE <<>>)
  \o (IF value THEN <<"download">> ELSE <<>>)

\* C19: a Core update emits on every session of the set, and on no other,
\* truncate, append and download in this order, each once and only when its bit
\* or the value is present; each kind of event goes through the sessions in
\* registration order; and when a truncate event is emitted no configured
\* cache holds an entry any more.
C19_EventOrder ==
  update # NoUpdate =>
    /\ \A t \in Created :
         EventsOn(t) = IF Count(LogSessions, t) > 0
                         THEN EventsDue(update.status, update.value) ELSE <<>>
    /\ \A i, j \in 1..Len(update.events) :
         (i < j /\ update.events[i].ev = update.events[j].ev
            /\ update.events[i].ev \in UpdateEvents)
           => IndexOf(LogSessions, update.events[i].s)
                < IndexOf(LogSessions, update.events[j].s)
    /\ (\E i \in 1..Len(update.events) : update.events[i].ev = "truncate") =>
         \A t \in Created : ses[t].cache => cache[t] = EmptyCache

AsyncOps ==
  {"get", "has", "seek", "update", "append", "truncate", "setUserData",
   "getUserData", "treeHash"}

\* C20: an asynchronous operation gets past its first await, and ends, only
\* after the opening future of its session has settled; and so does close.
C20_OpsAwaitOpening ==
  /\ last.name \in AsyncOps => Settled(ses[last.s].openPc)
  /\ \A s \in Created :
       (op[s] # Idle /\ op[s].pc # "opening") => Settled(ses[s].openPc)
  /\ \A s \in Created :
       ses[s].closePc \notin {"idle", "awaitOpening"} => Settled(ses[s].openPc)

====
